---- MODULE Spec2Model ----
(***************************************************************************)
(* Creature breeding game: genetics, breeding validation, the energy       *)
(* economy and the autonomous evolution loop (EvolutionSimulator), driven  *)
(* by the Game object of main.ts.                                          *)
(*                                                                         *)
(* Numbers.  Traits are held in tenths (stamina 1.0 is 10).  Energy is     *)
(* held in units of 1/EnergyPerTenth of a tenth, fine enough for the       *)
(* repeated "energy *= 0.7" of breeding to stay exact within the bounds.   *)
(* Time is held in seconds: Date.now() and the frame delta advance         *)
(* together.                                                               *)
(***************************************************************************)
EXTENDS Integers, Sequences, FiniteSets, TLC

VARIABLES
    heap,             \* the Creature objects that are still referenced, by reference
    creatures,        \* Game.creatures: the population, a sequence of references
    nextId,           \* supply of fresh object references / generated ids
    config,           \* EvolutionSimulator.config
    lastBreedTime,    \* EvolutionSimulator.lastBreedTime
    generationCount,  \* EvolutionSimulator.generationCount
    foods,            \* FoodManager.foods (number of items on the map)
    lastSpawnTime,    \* FoodManager.lastSpawnTime
    now,              \* Date.now()
    last,             \* the operation performed by the last step and its outcome
    toggled,          \* history of the enable switch: when and with which counter value
    storage,          \* localStorage: the item under SaveLoadManager.SAVE_KEY
    attemptedAt,      \* history: the time of the last due frame (-1: none yet)
    selectedCreatures \* UIManager.selectedCreatures, a sequence of references

vars == <<heap, creatures, nextId, config, lastBreedTime, generationCount,
          foods, lastSpawnTime, now, last, toggled, storage, attemptedAt,
          selectedCreatures>>

(***************************************************************************)
(* Bounds of the model.                                                    *)
(***************************************************************************)
MaxId == 4          \* objects created in a behaviour of the game
MaxFrames == 2      \* seconds of play time in a behaviour of the game
MaxAutoBreedId == 4       \* objects created in a behaviour of autonomous breeding
MaxControllerFrames == 2  \* full breeding intervals in a behaviour of autonomous breeding or culling
MaxToggleFrames == 3      \* half-interval frames in a behaviour of the controller
MaxCullPop == 7     \* size of the population natural selection works on
MaxSaveFrames == 5  \* seconds of play time in a behaviour with saving and loading
MaxLoadId == 5      \* objects created in a behaviour with saving and loading
MaxSaveBred == 3    \* objects there can be for the player to breed in such a behaviour
MaxGenomeId == 5    \* objects created in a behaviour of breeding over generations
MaxColorId == 4     \* objects created in a behaviour of color inheritance
MaxStatusId == 5    \* objects created in a behaviour of eligibility checks
MaxFrameId == 5     \* objects created in a behaviour of frame ordering
MaxFrameTicks == 2  \* frames in a behaviour of frame ordering
MaxFrameBred == 4   \* objects created by the player in such a behaviour
MaxFitnessId == 4   \* objects created in a behaviour of selection by fitness
MaxBehaviorId == 5  \* objects created in a behaviour of behavioral inheritance
MaxFeedId == 3      \* objects created in a behaviour of feeding
MaxFeedFrames == 3  \* frames in a behaviour of feeding
MaxRestId == 6      \* objects created in a behaviour of breeding and rest
MaxRestFrames == 7  \* frames in a behaviour of breeding and rest
MaxUiId == 4        \* objects created in a behaviour of selecting and breeding
MaxUiFrames == 2    \* frames in a behaviour of selecting and breeding

(***************************************************************************)
(* Units and small helpers.                                                *)
(***************************************************************************)
EnergyPerTenth == 10 * 10 * 10 * 10

Min(a, b) == IF a < b THEN a ELSE b
Max(a, b) == IF a > b THEN a ELSE b

null == <<>>

\* energy of a creature whose energy equals its stamina
FullEnergy(traits) == traits.stamina * EnergyPerTenth

\* Array.prototype.includes on a parentIds pair
includes(arr, x) == \E k \in 1..Len(arr) : arr[k] = x

SeqToSet(s) == {s[k] : k \in 1..Len(s)}

\* Array.prototype.indexOf (0 when absent)
indexOf(s, x) ==
    IF \E k \in 1..Len(s) : s[k] = x
    THEN CHOOSE k \in 1..Len(s) : s[k] = x /\ \A m \in 1..(k - 1) : s[m] # x
    ELSE 0

\* Array.prototype.splice(index, 1)
splice1(s, index) == [k \in 1..(Len(s) - 1) |-> IF k < index THEN s[k] ELSE s[k + 1]]

(***************************************************************************)
(* Genetics.                                                               *)
(***************************************************************************)
\* Trait values an offspring can get: max(0, average + mutation) with the
\* mutation anywhere in [-mutationRate, +mutationRate); twoRate is twice the
\* rate in the unit of the values, and the results are the ones on the grid.
\*
\* The values are numbers of the language (IEEE doubles).  The model keeps
\* the two ends of their range: the ordinary values, below LargeFrom, where
\* the grid is exact, and the large ones up to MAX_VALUE, the largest finite
\* number.  A large number absorbs an ordinary one added to it (less than
\* half a unit in its last place), and a sum beyond MAX_VALUE is Infinity.
MAX_VALUE == 1024 * 1024
LargeFrom == 1024
Infinity == MAX_VALUE + 1

isFinite(x) == -MAX_VALUE <= x /\ x <= MAX_VALUE

\* value1 + value2
plus(value1, value2) ==
    IF value1 = Infinity \/ value2 = Infinity THEN Infinity
    ELSE IF Max(value1, value2) >= LargeFrom /\ Min(value1, value2) < LargeFrom
    THEN Max(value1, value2)
    ELSE IF value1 + value2 > MAX_VALUE THEN Infinity
    ELSE value1 + value2

inheritNumericTrait(value1, value2, twoRate) ==
    UNION {IF sum = Infinity THEN {Infinity}                  \* Infinity / 2 + mutation
           ELSE IF sum >= LargeFrom THEN {Max(0, sum \div 2)}  \* the mutation is absorbed
           ELSE {v \in 0..((sum + twoRate) \div 2) :
                    \/ v > 0 /\ 2 * v >= sum - twoRate /\ 2 * v < sum + twoRate
                    \/ v = 0 /\ sum - twoRate <= 0} :
              sum \in {plus(value1, value2)}}

\* One draw of Math.random() decides the mutation: the draw "lo" gives the
\* smallest value of the range, "hi" the largest.
drawTrait(value1, value2, twoRate, draw) ==
    LET range == inheritNumericTrait(value1, value2, twoRate)
    IN  IF draw = "lo"
        THEN CHOOSE v \in range : \A u \in range : v <= u
        ELSE CHOOSE v \in range : \A u \in range : v >= u

\* A hex color is the sequence of the digits after the "#", each digit held
\* as its value 0..15.
Red == <<15, 15, 0, 0, 0, 0>>
Blue == <<0, 0, 0, 0, 15, 15>>

\* the regular expression of hexToRgb: six hex digits
isHexColor(hex) == Len(hex) = 6 /\ \A k \in 1..6 : hex[k] \in 0..15

\* parseInt(digits, 16) of two digits
parseInt16(d1, d2) == 16 * d1 + d2

hexToRgb(hex) ==
    IF isHexColor(hex)
    THEN [r |-> parseInt16(hex[1], hex[2]),
          g |-> parseInt16(hex[3], hex[4]),
          b |-> parseInt16(hex[5], hex[6])]
    ELSE [r |-> 128, g |-> 128, b |-> 128]

\* x.toString(16) for 0 <= x <= 255
toString16(x) == IF x < 16 THEN <<x>> ELSE <<x \div 16, x % 16>>

rgbToHex_NoPad(r, g, b) == toString16(r) \o toString16(g) \o toString16(b)

\* hex.length === 1 ? '0' + hex : hex, for each channel
rgbToHex(r, g, b) ==
    LET pad(hex) == IF Len(hex) = 1 THEN <<0>> \o hex ELSE hex
    IN  pad(toString16(r)) \o pad(toString16(g)) \o pad(toString16(b))

\* draw tells what the two calls of Math.random() decide: "color1" or
\* "color2" (below 0.3, then below 0.5 or not), or "blend"
blendColors(color1, color2, draw) ==
    IF draw = "color1" THEN color1
    ELSE IF draw = "color2" THEN color2
    ELSE LET rgb1 == hexToRgb(color1)
             rgb2 == hexToRgb(color2)
             blendedR == (rgb1.r + rgb2.r) \div 2
             blendedG == (rgb1.g + rgb2.g) \div 2
             blendedB == (rgb1.b + rgb2.b) \div 2
         IN  rgbToHex(blendedR, blendedG, blendedB)

\* rnd holds the draws of the random source, one for each trait
breedTraits(parent1Traits, parent2Traits, rnd) ==
    [size |-> drawTrait(parent1Traits.size, parent2Traits.size, 2, rnd.size),
     speed |-> drawTrait(parent1Traits.speed, parent2Traits.speed, 2, rnd.speed),
     stamina |-> drawTrait(parent1Traits.stamina, parent2Traits.stamina, 2, rnd.stamina),
     bodyColor |-> blendColors(parent1Traits.bodyColor, parent2Traits.bodyColor,
                               rnd.bodyColor),
     aggression |-> drawTrait(parent1Traits.aggression, parent2Traits.aggression, 3,
                              rnd.aggression)]

(***************************************************************************)
(* Creature.                                                               *)
(***************************************************************************)
\* new Creature(data) for the data the game passes: a field that is absent
\* (or falsy) takes its default.
Creature(id, name, traits, generation, parentIds, energy) ==
    [id |-> id,
     name |-> name,
     traits |-> traits,
     generation |-> IF generation = 0 THEN 1 ELSE generation,
     parentIds |-> parentIds,
     energy |-> IF energy = 0 THEN FullEnergy(traits) ELSE energy,
     idleTime |-> 0]

\* Creature.update with a rest that is not capped at the stamina
lowEnergy_Half(energy, traits) == 2 * energy < FullEnergy(traits)

\* "if low energy, rest": this.energy < 0.3 * this.traits.stamina
lowEnergy(energy, traits) == 10 * energy < 3 * FullEnergy(traits)

Creature_update_NoCap(c, deltaTime) ==
    LET decayed == Max(0, c.energy - deltaTime * EnergyPerTenth)
    IN  IF lowEnergy(decayed, c.traits)
        THEN [c EXCEPT !.idleTime = c.idleTime + deltaTime,
                       !.energy = IF c.idleTime + deltaTime > 2
                                  THEN decayed + deltaTime * 5 * EnergyPerTenth
                                  ELSE decayed]
        ELSE [c EXCEPT !.energy = decayed, !.idleTime = 0]

\* Creature.update(deltaTime): the energy part
Creature_update(c, deltaTime) ==
    LET decayed == Max(0, c.energy - deltaTime * EnergyPerTenth)
    IN  IF lowEnergy(decayed, c.traits)
        THEN LET idle == c.idleTime + deltaTime
             IN  [c EXCEPT !.idleTime = idle,
                           !.energy = IF idle > 2
                                      THEN Min(FullEnergy(c.traits),
                                               decayed + deltaTime * 5 * EnergyPerTenth)
                                      ELSE decayed]
        ELSE [c EXCEPT !.energy = decayed, !.idleTime = 0]

(***************************************************************************)
(* BreedingManager.                                                        *)
(***************************************************************************)
needsEnergy(c) == 2 * c.energy < FullEnergy(c.traits)

canBreed_NoSelfRule(creature1, creature2) ==
    IF needsEnergy(creature1) \/ needsEnergy(creature2) THEN FALSE
    ELSE IF creature1.parentIds # null /\ includes(creature1.parentIds, creature2.id) THEN FALSE
    ELSE IF creature2.parentIds # null /\ includes(creature2.parentIds, creature1.id) THEN FALSE
    ELSE TRUE

canBreed_OneWay(creature1, creature2) ==
    IF creature1.id = creature2.id THEN FALSE
    ELSE IF needsEnergy(creature1) \/ needsEnergy(creature2) THEN FALSE
    ELSE IF creature1.parentIds # null /\ includes(creature1.parentIds, creature2.id) THEN FALSE
    ELSE TRUE

canBreed(creature1, creature2) ==
    IF creature1.id = creature2.id THEN FALSE
    ELSE IF needsEnergy(creature1) \/ needsEnergy(creature2) THEN FALSE
    ELSE IF creature1.parentIds # null /\ includes(creature1.parentIds, creature2.id) THEN FALSE
    ELSE IF creature2.parentIds # null /\ includes(creature2.parentIds, creature1.id) THEN FALSE
    ELSE TRUE

getBreedingStatus_LineageFirst(creature1, creature2) ==
    IF creature1.id = creature2.id
    THEN [name |-> <<>>, text |-> "Cannot breed with self"]
    ELSE IF creature1.parentIds # null /\ includes(creature1.parentIds, creature2.id)
    THEN [name |-> <<>>, text |-> "Cannot breed with parent"]
    ELSE IF creature2.parentIds # null /\ includes(creature2.parentIds, creature1.id)
    THEN [name |-> <<>>, text |-> "Cannot breed with offspring"]
    ELSE IF needsEnergy(creature1)
    THEN [name |-> creature1.name, text |-> " needs more energy"]
    ELSE IF needsEnergy(creature2)
    THEN [name |-> creature2.name, text |-> " needs more energy"]
    ELSE [name |-> <<>>, text |-> "Ready to breed"]

getBreedingStatus_NoOffspringRule(creature1, creature2) ==
    IF creature1.id = creature2.id
    THEN [name |-> <<>>, text |-> "Cannot breed with self"]
    ELSE IF needsEnergy(creature1)
    THEN [name |-> creature1.name, text |-> " needs more energy"]
    ELSE IF needsEnergy(creature2)
    THEN [name |-> creature2.name, text |-> " needs more energy"]
    ELSE IF creature1.parentIds # null /\ includes(creature1.parentIds, creature2.id)
    THEN [name |-> <<>>, text |-> "Cannot breed with parent"]
    ELSE [name |-> <<>>, text |-> "Ready to breed"]

\* the message, as its fixed text and the name spliced into it
getBreedingStatus(creature1, creature2) ==
    IF creature1.id = creature2.id
    THEN [name |-> <<>>, text |-> "Cannot breed with self"]
    ELSE IF needsEnergy(creature1)
    THEN [name |-> creature1.name, text |-> " needs more energy"]
    ELSE IF needsEnergy(creature2)
    THEN [name |-> creature2.name, text |-> " needs more energy"]
    ELSE IF creature1.parentIds # null /\ includes(creature1.parentIds, creature2.id)
    THEN [name |-> <<>>, text |-> "Cannot breed with parent"]
    ELSE IF creature2.parentIds # null /\ includes(creature2.parentIds, creature1.id)
    THEN [name |-> <<>>, text |-> "Cannot breed with offspring"]
    ELSE [name |-> <<>>, text |-> "Ready to breed"]

ReadyToBreed == [name |-> <<>>, text |-> "Ready to breed"]

generateOffspringName(name1, name2) ==
    LET midPoint1 == Len(name1) \div 2
        midPoint2 == Len(name2) \div 2
    IN  SubSeq(name1, 1, midPoint1) \o SubSeq(name2, midPoint2 + 1, Len(name2))

offspringGeneration_NoIncrement(generation1, generation2) == Max(generation1, generation2)

\* Math.max(parent1.generation, parent2.generation) + 1
offspringGeneration(generation1, generation2) == Max(generation1, generation2) + 1

\* "energy *= 0.7"
reduceEnergy_Wrong(energy) == (energy * 3) \div 10

reduceEnergy(energy) == (energy * 7) \div 10

\* BreedingManager.breed on the objects h[p1], h[p2]; the offspring gets the
\* reference and the generated id `id`; rnd holds the draws of breedTraits
breed(h, p1, p2, rnd, id) ==
    IF needsEnergy(h[p1]) \/ needsEnergy(h[p2])
    THEN [signal |-> "Parents need more energy to breed", heap |-> h, offspring |-> 0]
    ELSE LET offspring == Creature(id,
                                   generateOffspringName(h[p1].name, h[p2].name),
                                   breedTraits(h[p1].traits, h[p2].traits, rnd),
                                   offspringGeneration(h[p1].generation, h[p2].generation),
                                   <<h[p1].id, h[p2].id>>,
                                   0)
             h1 == [h EXCEPT ![p1].energy = reduceEnergy(@)]
             h2 == [h1 EXCEPT ![p2].energy = reduceEnergy(@)]
         IN  [signal |-> "ok", heap |-> (id :> offspring) @@ h2, offspring |-> id]

(***************************************************************************)
(* Game: the population list.  A world w is the part of the state that a   *)
(* frame threads through its steps: heap, creatures, nextId and            *)
(* generationCount.                                                        *)
(***************************************************************************)
addCreature(w, ref) == [w EXCEPT !.creatures = Append(@, ref)]

removeCreature(w, ref) ==
    LET index == indexOf(w.creatures, ref)
    IN  IF index # 0
        THEN [w EXCEPT !.creatures = splice1(@, index),
                       !.heap = [r \in (DOMAIN @) \ {ref} |-> @[r]]]
        ELSE w

\* Game.breedCreatures: the outcome is the world and the notification shown
breedCreatures(w, creature1, creature2, rnd) ==
    IF ~canBreed(w.heap[creature1], w.heap[creature2])
    THEN [world |-> w, signal |-> "error",
          status |-> getBreedingStatus(w.heap[creature1], w.heap[creature2])]
    ELSE LET r == breed(w.heap, creature1, creature2, rnd, w.nextId)
         IN  IF r.signal # "ok"
             THEN [world |-> w, signal |-> "error",
                   status |-> [name |-> <<>>, text |-> r.signal]]
             ELSE [world |-> addCreature([w EXCEPT !.heap = r.heap, !.nextId = @ + 1],
                                         r.offspring),
                   signal |-> "success", status |-> ReadyToBreed]

(***************************************************************************)
(* EvolutionSimulator.                                                     *)
(***************************************************************************)
DefaultConfig ==
    [enabled |-> FALSE, speed |-> 1, maxPopulation |-> 50, targetPopulation |-> 20,
     autoBreed |-> TRUE, naturalSelection |-> FALSE]

\* { ...this.config, ...config }: partial is a function on some of the fields
setConfig(cfg, partial) ==
    [f \in DOMAIN cfg |-> IF f \in DOMAIN partial THEN partial[f] ELSE cfg[f]]

\* the fitness, times 40 * EnergyPerTenth, as a fraction num / den
calculateFitness(creature) ==
    [num |-> (creature.traits.size + creature.traits.speed + creature.traits.stamina)
                 * creature.traits.stamina * EnergyPerTenth + 10 * creature.energy,
     den |-> creature.traits.stamina]

\* fitnessA - fitnessB < 0
fitnessLess(a, b) ==
    calculateFitness(a).num * calculateFitness(b).den
        < calculateFitness(b).num * calculateFitness(a).den

\* [...creatures].sort(by fitness), a stable sort
RECURSIVE sortByFitness(_, _)
sortByFitness(h, refs) ==
    IF refs = <<>> THEN <<>>
    ELSE LET front == sortByFitness(h, SubSeq(refs, 1, Len(refs) - 1))
             x == refs[Len(refs)]
             \* x goes behind every element that is not fitter than x
             pos == Cardinality({k \in 1..Len(front) : ~fitnessLess(h[x], h[front[k]])})
         IN  SubSeq(front, 1, pos) \o <<x>> \o SubSeq(front, pos + 1, Len(front))

toRemove_NoCap(n, target) == n - target

toRemove(n, target) == Min(5, n - target)

RECURSIVE removeFirst(_, _, _, _)
removeFirst(w, sorted, i, count) ==
    IF i > count THEN w
    ELSE IF i > Len(sorted) THEN removeFirst(w, sorted, i + 1, count)
    ELSE removeFirst(removeCreature(w, sorted[i]), sorted, i + 1, count)

RECURSIVE Orderings(_)
Orderings(S) ==
    IF S = {} THEN {<<>>}
    ELSE UNION {{<<x>> \o p : p \in Orderings(S \ {x})} : x \in S}

\* the orders [...eligible].sort(() => Math.random() - 0.5) can produce
Shuffles(seq) ==
    {[k \in 1..Len(seq) |-> seq[p[k]]] : p \in Orderings(1..Len(seq))}

\* every fitness of the population is a number: no 0 / 0 in calculateFitness
comparable(h, refs) ==
    \A k \in 1..Len(refs) : h[refs[k]].traits.stamina # 0 \/ h[refs[k]].energy # 0

\* the orders sort can return: with a NaN among the fitnesses the comparator
\* is not consistent and the language leaves the order to the engine
SortOutcomes(h, refs) ==
    IF comparable(h, refs) THEN {sortByFitness(h, refs)} ELSE Shuffles(refs)

applyNaturalSelection(w, cfg, sorted) ==
    removeFirst(w, sorted, 1, toRemove(Len(w.creatures), cfg.targetPopulation))

\* creatures.filter(c => c.energy > 0.5 * c.traits.stamina)
eligible(w) == SelectSeq(w.creatures, LAMBDA r : 2 * w.heap[r].energy > FullEnergy(w.heap[r].traits))

RECURSIVE scanPairs(_, _, _, _)

afterBreed_NoBreak(w, shuffled, i, rnd) == scanPairs(w, shuffled, i + 1, rnd)

\* "break"
afterBreed(w, shuffled, i, rnd) == w

scanPairs(w, shuffled, i, rnd) ==
    IF i > Len(shuffled) - 1 THEN w
    ELSE IF canBreed(w.heap[shuffled[i]], w.heap[shuffled[i + 1]])
         THEN LET bred == breedCreatures(w, shuffled[i], shuffled[i + 1], rnd).world
              IN  afterBreed([bred EXCEPT !.generationCount = @ + 1], shuffled, i, rnd)
         ELSE scanPairs(w, shuffled, i + 1, rnd)

tryAutoBreed(w, shuffled, rnd) ==
    IF Len(shuffled) < 2 THEN w ELSE scanPairs(w, shuffled, 1, rnd)

breedInterval(cfg) == 60 \div cfg.speed

due_NotStrict(cfg, last0, t) ==
    cfg.enabled /\ cfg.autoBreed /\ t - last0 >= breedInterval(cfg)

\* the tick is due: enough time since the last attempt
due(cfg, last0, t) ==
    cfg.enabled /\ cfg.autoBreed /\ t - last0 > breedInterval(cfg)

belowTarget_OrAt(n, cfg) == n <= cfg.targetPopulation

\* "creatures.length < this.config.targetPopulation"
belowTarget(n, cfg) == n < cfg.targetPopulation

\* EvolutionSimulator.update, for a due tick
\* sorted is the outcome of the sort of a frame that breeds nobody; a frame
\* that breeds has a population below the target after it, and removes nobody
EvolutionSimulator_update(w, cfg, shuffled, rnd, sorted) ==
    LET w1 == IF belowTarget(Len(w.creatures), cfg)
              THEN tryAutoBreed(w, shuffled, rnd)
              ELSE w
    IN  IF cfg.naturalSelection /\ Len(w1.creatures) > cfg.maxPopulation
        THEN applyNaturalSelection(w1, cfg,
                                   IF w1.creatures = w.creatures
                                   THEN sorted
                                   ELSE sortByFitness(w1.heap, w1.creatures))
        ELSE w1

reset_AlsoDisables(sim) ==
    [sim EXCEPT !.generationCount = 0, !.lastBreedTime = 0, !.config.enabled = FALSE]

\* EvolutionSimulator.reset on the simulator's fields
reset(sim) == [sim EXCEPT !.generationCount = 0, !.lastBreedTime = 0]

(***************************************************************************)
(* FoodManager.                                                            *)
(***************************************************************************)
maxFood == 20
spawnInterval == 5
nutritionValue == 200 * EnergyPerTenth

\* the spawning part of FoodManager.update at time t
spawnFood(fm, t) ==
    IF t - fm.lastSpawnTime > spawnInterval /\ fm.foods < maxFood
    THEN [foods |-> fm.foods + 1, lastSpawnTime |-> t]
    ELSE fm

\* FoodManager.checkFeeding: near[k] is the set of creatures within reach of
\* the k-th food item that has any creature within reach
RECURSIVE checkFeeding(_, _)
checkFeeding(h, near) ==
    IF near = <<>> THEN h
    ELSE checkFeeding([r \in DOMAIN h |->
                          IF r \in Head(near)
                          THEN [h[r] EXCEPT !.energy =
                                   Min(FullEnergy(h[r].traits), @ + nutritionValue)]
                          ELSE h[r]],
                      Tail(near))

\* the feeding situations considered: no creature near any food, or up to
\* maxEaters creatures near one food item
NearChoices(foodCount, refs, maxEaters) ==
    {<<>>} \cup
    (IF foodCount = 0 THEN {}
     ELSE {<<S>> : S \in {T \in SUBSET refs : T # {} /\ Cardinality(T) <= maxEaters}})

(***************************************************************************)
(* MultiplayerPoolManager.                                                 *)
(***************************************************************************)
maxImport == 10

toData(c) ==
    [id |-> c.id, name |-> c.name, traits |-> c.traits, generation |-> c.generation,
     parentIds |-> c.parentIds, energy |-> c.energy]

mergeCreatures_KeepLineage(existing, imported, firstId) ==
    existing \o [k \in 1..Min(Len(imported), maxImport) |->
                    [imported[k] EXCEPT !.id = firstId + k - 1]]

\* the imported records get the generated ids firstId, firstId + 1, ...
mergeCreatures(existing, imported, firstId) ==
    existing \o [k \in 1..Min(Len(imported), maxImport) |->
                    [imported[k] EXCEPT !.id = firstId + k - 1,
                                        !.generation = 1,
                                        !.parentIds = null]]

(***************************************************************************)
(* SaveLoadManager, and the saving and loading of the game.  The stored    *)
(* item is modelled after JSON.parse: kind "none" is no item, "unparseable"*)
(* a text JSON.parse rejects, "noList" an object without a creatures list, *)
(* "data" an object with one; finite numbers, strings, arrays and null     *)
(* come back from JSON as they went in.                                    *)
(***************************************************************************)
\* SaveLoadManager.saveGame on the data of the creatures in list
saveGame(h, list) ==
    [kind |-> "data", creatures |-> [k \in 1..Len(list) |-> toData(h[list[k]])]]

\* SaveLoadManager.loadGame: the game data, or null
SaveLoadManager_loadGame(stored) ==
    IF stored.kind = "data" THEN stored ELSE null

\* new Creature(data) on a parsed record: an absent id is generated, absent
\* traits are drawn at random
fromData(d, randomTraits, generatedId) ==
    Creature(IF d.id = 0 THEN generatedId ELSE d.id,
             d.name,
             IF d.traits = null THEN randomTraits ELSE d.traits,
             d.generation, d.parentIds, d.energy)

RECURSIVE loadRecords(_, _, _, _)
\* the forEach of Game.loadGame from record k on; new Creature(null) throws
\* a TypeError, which ends the loop and the handler
loadRecords(w, records, k, randomTraits) ==
    IF k > Len(records)
    THEN [world |-> w, signal |-> "success"]
    ELSE IF records[k] = null
    THEN [world |-> w, signal |-> "TypeError"]
    ELSE loadRecords(
             addCreature([w EXCEPT !.heap = (w.nextId :> fromData(records[k], randomTraits, w.nextId)) @@ @,
                                   !.nextId = @ + 1],
                         w.nextId),
             records, k + 1, randomTraits)

\* Game.loadGame
loadGame(w, stored, randomTraits) ==
    LET gameData == SaveLoadManager_loadGame(stored)
    IN  IF gameData = null
        THEN [world |-> w, signal |-> "No save file found"]
        ELSE loadRecords([w EXCEPT !.creatures = <<>>, !.heap = <<>>],
                         gameData.creatures, 1, randomTraits)

\* what damage to the stored item can leave behind
DamagedSaves(stored) ==
    {[kind |-> "unparseable", creatures |-> <<>>], [kind |-> "noList", creatures |-> <<>>]}
    \cup {[stored EXCEPT !.creatures[k] = null] : k \in 1..Len(stored.creatures)}

(***************************************************************************)
(* The state and the operations of the game.                               *)
(***************************************************************************)
StartTime == 1000

\* generateRandomTraits and generateName, sampled
FounderTraits ==
    {[size |-> 10, speed |-> 10, stamina |-> 10, bodyColor |-> Red,
      aggression |-> 9],
     [size |-> 5, speed |-> 12, stamina |-> 20, bodyColor |-> Blue,
      aggression |-> 2]}

FounderNames == {<<"A", "e", "r", "o", "y", "x">>}

RandomDraws == [size : {"lo"}, speed : {"hi"}, stamina : {"lo", "hi"}, bodyColor : {"blend"},
                aggression : {"hi"}]

OneDraw == {[size |-> "lo", speed |-> "hi", stamina |-> "hi", bodyColor |-> "blend",
             aggression |-> "hi"]}

World == [heap |-> heap, creatures |-> creatures, nextId |-> nextId,
          generationCount |-> generationCount]

NoToggle == [reenabledAt |-> -1, count |-> -1]

\* localStorage without a saved game
NoSave == [kind |-> "none", creatures |-> <<>>]

\* the history of the enable switch after the configuration becomes cfg
toggledAfter(cfg) ==
    IF config.enabled /\ ~cfg.enabled
    THEN [reenabledAt |-> -1, count |-> generationCount]
    ELSE IF ~config.enabled /\ cfg.enabled /\ toggled.count >= 0
    THEN [toggled EXCEPT !.reenabledAt = now]
    ELSE IF cfg.speed # config.speed
    THEN [toggled EXCEPT !.reenabledAt = -1]
    ELSE toggled

Op(name, signal, a, b) == [op |-> name, signal |-> signal, a |-> a, b |-> b]

\* generateRandomTraits for the r-th creature of the starting population
StartTraits(r) ==
    IF r % 2 = 1 THEN [size |-> 10, speed |-> 10, stamina |-> 10, bodyColor |-> Red,
                       aggression |-> 9]
                 ELSE [size |-> 5, speed |-> 12, stamina |-> 20, bodyColor |-> Blue,
                       aggression |-> 2]

\* the population the game starts with: n founders (the default creatures of
\* a new game, or the creatures of a saved game)
Founders(n) ==
    [r \in 1..n |->
        Creature(r, CHOOSE nm \in FounderNames : TRUE, StartTraits(r), 0, null, 0)]

InitWith(populations, configs) ==
    /\ \E n \in populations :
          /\ heap = Founders(n)
          /\ creatures = [r \in 1..n |-> r]
          /\ nextId = n + 1
    /\ config \in configs
    /\ lastBreedTime = 0
    /\ generationCount = 0
    /\ foods = 0
    /\ lastSpawnTime = 0
    /\ now = StartTime
    /\ last = Op("new", "none", 0, 0)
    /\ toggled = NoToggle
    /\ storage = NoSave
    /\ attemptedAt = -1
    /\ selectedCreatures = <<>>

Init == InitWith({2, 3}, {DefaultConfig})

\* UIManager.clearSelection
clearSelection == <<>>

\* UIManager.selectCreature on the sequence of selected references, for a
\* creature that is not selected yet and one that is (ids: h[r].id)
selectCreature(h, selected, creature) ==
    LET found == {k \in 1..Len(selected) : h[selected[k]].id = h[creature].id}
        index == IF found = {} THEN 0 ELSE CHOOSE k \in found : \A m \in found : k <= m
    IN  IF index # 0
        THEN SubSeq(selected, 1, index - 1) \o SubSeq(selected, index + 1, Len(selected))
        ELSE IF Len(selected) < 2 THEN Append(selected, creature)
        ELSE Append(Tail(selected), creature)

\* a Creature object that has left the population stays alive as long as
\* the selection refers to it: h is the heap of the population, old the heap
\* the objects are taken from
stillReferenced(h, old, selected) ==
    h @@ [r \in SeqToSet(selected) \ DOMAIN h |-> old[r]]

\* Game.createRandomCreature
CreateRandomCreature(maxId) ==
    /\ nextId <= maxId
    /\ \E nm \in FounderNames, t \in FounderTraits :
          /\ heap' = (nextId :> Creature(nextId, nm, t, 0, null, 0)) @@ heap
          /\ creatures' = Append(creatures, nextId)
    /\ nextId' = nextId + 1
    /\ last' = Op("createRandomCreature", "success", nextId, 0)
    /\ UNCHANGED <<config, lastBreedTime, generationCount, foods, lastSpawnTime, now,
                   toggled, storage, attemptedAt, selectedCreatures>>

\* Game.breedCreatures on two creatures of the population (the breed button)
BreedCreatures(creature1, creature2, maxId, draws) ==
    /\ nextId <= maxId
    /\ \E rnd \in draws :
          LET r == breedCreatures(World, creature1, creature2, rnd)
          IN  /\ heap' = r.world.heap
              /\ creatures' = r.world.creatures
              /\ nextId' = r.world.nextId
              /\ last' = Op("breedCreatures", r.signal, creature1, creature2)
              /\ selectedCreatures' = IF r.signal = "success" THEN clearSelection
                                                              ELSE selectedCreatures
    /\ UNCHANGED <<config, lastBreedTime, generationCount, foods, lastSpawnTime, now, toggled,
                   storage, attemptedAt>>

\* Game.onMouseClick on a creature of the population
SelectCreature(creature) ==
    /\ creature \in SeqToSet(creatures)
    /\ selectedCreatures' = selectCreature(heap, selectedCreatures, creature)
    /\ last' = Op("selectCreature", "none", creature, 0)
    /\ UNCHANGED <<heap, creatures, nextId, config, lastBreedTime, generationCount,
                   foods, lastSpawnTime, now, toggled, storage, attemptedAt>>

\* the click handler of the breed button
BreedButton(maxId, draws) ==
    /\ Len(selectedCreatures) = 2
    /\ BreedCreatures(selectedCreatures[1], selectedCreatures[2], maxId, draws)

\* BreedingManager.breed called on two creatures without the eligibility
\* check; the caller adds the offspring it gets to the population
Breed(parent1, parent2, maxId, draws) ==
    /\ nextId <= maxId
    /\ \E rnd \in draws :
          LET r == breed(heap, parent1, parent2, rnd, nextId)
          IN  /\ heap' = r.heap
              /\ creatures' = IF r.signal = "ok" THEN Append(creatures, r.offspring)
                                                ELSE creatures
              /\ nextId' = IF r.signal = "ok" THEN nextId + 1 ELSE nextId
              /\ last' = Op("breed", r.signal, parent1, parent2)
    /\ UNCHANGED <<config, lastBreedTime, generationCount, foods, lastSpawnTime, now,
                   toggled, storage, attemptedAt, selectedCreatures>>

\* Game.toggleEvolution
ToggleEvolution ==
    LET cfg == setConfig(config, [enabled |-> ~config.enabled])
    IN  /\ config' = cfg
        /\ toggled' = toggledAfter(cfg)
        /\ last' = Op("toggleEvolution", "none", 0, 0)
        /\ UNCHANGED <<heap, creatures, nextId, lastBreedTime, generationCount,
                       foods, lastSpawnTime, now, storage, attemptedAt,
                       selectedCreatures>>

\* EvolutionSimulator.setConfig with a partial configuration
SetConfig(partial) ==
    LET cfg == setConfig(config, partial)
    IN  /\ config' = cfg
        /\ toggled' = toggledAfter(cfg)
        /\ last' = Op("setConfig", "none", 0, 0)
        /\ UNCHANGED <<heap, creatures, nextId, lastBreedTime, generationCount,
                       foods, lastSpawnTime, now, storage, attemptedAt,
                       selectedCreatures>>

\* EvolutionSimulator.reset
Reset ==
    LET sim == reset([config |-> config, lastBreedTime |-> lastBreedTime,
                      generationCount |-> generationCount])
    IN  /\ config' = sim.config
        /\ lastBreedTime' = sim.lastBreedTime
        /\ generationCount' = sim.generationCount
        /\ toggled' = IF toggled.count >= 0 THEN [toggled EXCEPT !.count = 0] ELSE toggled
        /\ last' = Op("reset", "none", 0, 0)
        /\ UNCHANGED <<heap, creatures, nextId, foods, lastSpawnTime, now, storage, attemptedAt,
                       selectedCreatures>>

\* a parsed record that passes structural validation: an object with traits
wellFormed(d) == d # null /\ d.traits # null

\* Game.importPool with the creature records of an uploaded pool.  A null
\* among the records taken makes mergeCreatures throw a TypeError before any
\* creature is constructed.
ImportPool(imported, maxId) ==
    LET taken == SubSeq(imported, 1, Min(Len(imported), maxImport))
        valid == Cardinality({k \in 1..Len(taken) : wellFormed(taken[k])})
        throws == \E k \in 1..Len(taken) : taken[k] = null
        needsTraits == ~throws /\ \E k \in 1..Len(taken) : taken[k].traits = null
        currentData == [k \in 1..Len(creatures) |-> toData(heap[creatures[k]])]
        merged == IF throws THEN currentData ELSE mergeCreatures(currentData, imported, nextId)
        added == [k \in 1..(Len(merged) - Len(currentData)) |-> merged[Len(currentData) + k]]
    IN  /\ nextId + Len(added) - 1 <= maxId
        /\ \E randomTraits \in (IF needsTraits THEN FounderTraits
                                              ELSE {CHOOSE t \in FounderTraits : TRUE}) :
              heap' = [r \in nextId..(nextId + Len(added) - 1) |->
                          fromData(added[r - nextId + 1], randomTraits, r)]
                      @@ heap
        /\ creatures' = creatures \o [k \in 1..Len(added) |-> nextId + k - 1]
        /\ nextId' = nextId + Len(added)
        /\ last' = Op("importPool", IF throws THEN "TypeError" ELSE "success", Len(added), valid)
        /\ UNCHANGED <<config, lastBreedTime, generationCount, foods, lastSpawnTime, now,
                       toggled, storage, attemptedAt,
                       selectedCreatures>>

\* Game.saveGame
SaveGame ==
    /\ storage' = saveGame(heap, creatures)
    /\ last' = Op("saveGame", "success", 0, 0)
    /\ UNCHANGED <<heap, creatures, nextId, config, lastBreedTime, generationCount,
                   foods, lastSpawnTime, now, toggled, attemptedAt, selectedCreatures>>

\* the stored item is damaged outside the game
DamageStorage ==
    /\ storage' \in DamagedSaves(storage)
    /\ last' = Op("damageStorage", "none", 0, 0)
    /\ UNCHANGED <<heap, creatures, nextId, config, lastBreedTime, generationCount,
                   foods, lastSpawnTime, now, toggled, attemptedAt, selectedCreatures>>

\* Game.loadGame from the load button
LoadGame(maxId) ==
    /\ nextId + Len(storage.creatures) - 1 <= maxId
    /\ LET r == loadGame(World, storage, CHOOSE t \in FounderTraits : TRUE)
           selected == IF r.signal = "success" THEN clearSelection ELSE selectedCreatures
       IN  /\ heap' = stillReferenced(r.world.heap, heap, selected)
           /\ creatures' = r.world.creatures
           /\ nextId' = r.world.nextId
           /\ last' = Op("loadGame", r.signal, Len(storage.creatures), 0)
           /\ selectedCreatures' = selected
    /\ UNCHANGED <<config, lastBreedTime, generationCount, foods, lastSpawnTime, now,
                   toggled, storage, attemptedAt>>

updateCreatures_NotYet(h, list, deltaTime) == h

\* this.creatures.forEach(creature => creature.update(deltaTime)), the step
\* of animate that comes before the controller's
updateCreatures(h, list, deltaTime) ==
    [r \in DOMAIN h |->
        IF r \in SeqToSet(list) THEN Creature_update(h[r], deltaTime) ELSE h[r]]

\* Game.animate: one frame, deltaTime after the previous one.  draws are the
\* outcomes of the random source considered, maxEaters bounds the feeding
\* situations considered.
Animate(deltaTime, horizon, maxId, draws, maxEaters) ==
    LET t == now + deltaTime
        updated == updateCreatures(heap, creatures, deltaTime)
        w0 == [World EXCEPT !.heap = updated]
        isDue == due(config, lastBreedTime, t)
        breeds == isDue /\ belowTarget(Len(creatures), config)
        selects == isDue /\ config.naturalSelection /\ Len(creatures) > config.maxPopulation
        fm == spawnFood([foods |-> foods, lastSpawnTime |-> lastSpawnTime], t)
    IN  /\ t <= StartTime + horizon
        /\ breeds => nextId <= maxId
        /\ \E shuffled \in (IF breeds THEN Shuffles(eligible(w0)) ELSE {<<>>}) :
           \E rnd \in (IF breeds THEN draws ELSE {CHOOSE d \in draws : TRUE}) :
           \E sorted \in (IF selects THEN SortOutcomes(updated, creatures) ELSE {<<>>}) :
              LET w1 == IF isDue
                        THEN EvolutionSimulator_update(w0, config, shuffled, rnd, sorted)
                        ELSE w0
              IN  /\ \E near \in NearChoices(fm.foods, SeqToSet(w1.creatures), maxEaters) :
                        /\ heap' = stillReferenced(checkFeeding(w1.heap, near), updated,
                                                   selectedCreatures)
                        /\ foods' = fm.foods - Len(near)
                  /\ creatures' = w1.creatures
                  /\ nextId' = w1.nextId
                  /\ generationCount' = w1.generationCount
        /\ lastBreedTime' = IF isDue THEN t ELSE lastBreedTime
        /\ lastSpawnTime' = fm.lastSpawnTime
        /\ now' = t
        /\ last' = Op("animate", IF isDue THEN "due" ELSE "none", 0, 0)
        /\ attemptedAt' = IF isDue THEN t ELSE attemptedAt
        /\ UNCHANGED <<config, toggled, storage, selectedCreatures>>

(***************************************************************************)
(* Specifications.                                                         *)
(***************************************************************************)
\* The game as the player drives it: create, breed and the frames.
Next ==
    \/ CreateRandomCreature(MaxId)
    \/ \E creature1, creature2 \in SeqToSet(creatures) :
          BreedCreatures(creature1, creature2, MaxId, RandomDraws)
    \/ Animate(1, MaxFrames, MaxId, RandomDraws, 0)

Spec == Init /\ [][Next]_vars

\* Callers that run the breeding transaction directly, between frames.
NextApi ==
    \/ Animate(1, MaxFrames, MaxId, OneDraw, 0)
    \/ \E parent1, parent2 \in SeqToSet(creatures) : Breed(parent1, parent2, MaxId, OneDraw)

SpecApi == Init /\ [][NextApi]_vars

\* the creature lists of the pools handed to importPool
ImportedRecords ==
    {[id |-> 1, name |-> <<"B", "l", "a", "z", "e", "u", "s">>,
      traits |-> [size |-> 10, speed |-> 10, stamina |-> 10, bodyColor |-> Red,
                  aggression |-> 9],
      generation |-> 7, parentIds |-> <<1, 2>>, energy |-> 6 * EnergyPerTenth],
     [id |-> 9, name |-> <<"C", "r", "y", "o", "i", "x">>,
      traits |-> [size |-> 5, speed |-> 12, stamina |-> 20, bodyColor |-> Blue,
                  aggression |-> 2],
      generation |-> 1, parentIds |-> null, energy |-> 0]}

ImportedPools ==
    {<<a>> : a \in ImportedRecords} \cup {<<a, b>> : a, b \in ImportedRecords}

\* The game, and the import of breeding pools.
NextImport ==
    \/ \E creature1, creature2 \in SeqToSet(creatures) :
          BreedCreatures(creature1, creature2, MaxId, OneDraw)
    \/ Animate(1, MaxFrames, MaxId, OneDraw, 0)
    \/ \E imported \in ImportedPools : ImportPool(imported, MaxId)

SpecImport == Init /\ [][NextImport]_vars

\* The evolution loop of a game with two creatures: the switch, the
\* configuration, reset, and frames that come half a default interval apart.
ControllerConfigs == {[speed |-> 2], [autoBreed |-> FALSE]}

NextController ==
    \/ ToggleEvolution
    \/ \E partial \in ControllerConfigs : SetConfig(partial)
    \/ Reset
    \/ Animate(30, 30 * MaxToggleFrames, MaxId, OneDraw, 0)

SpecController == InitWith({2}, {DefaultConfig}) /\ [][NextController]_vars

\* Autonomous breeding in a new game: the switch, and frames that come half
\* an interval or a full interval apart.
FrameGaps == {30, 61}

NextAutoBreed ==
    \/ ToggleEvolution
    \/ \E deltaTime \in FrameGaps :
          Animate(deltaTime, 61 * MaxControllerFrames, MaxAutoBreedId, OneDraw, 0)

SpecAutoBreed == InitWith({3}, {DefaultConfig}) /\ [][NextAutoBreed]_vars

\* Natural selection on a large population, in a game whose controller
\* has been configured for it.
CullConfigs ==
    {[maxPopulation |-> 1, targetPopulation |-> 1],
     [maxPopulation |-> 4, targetPopulation |-> 0],
     [maxPopulation |-> 4, targetPopulation |-> 6],
     [maxPopulation |-> 0, targetPopulation |-> -1]}

StartCullConfig ==
    setConfig(DefaultConfig,
              [naturalSelection |-> TRUE, maxPopulation |-> 4, targetPopulation |-> 1])

NextCull ==
    \/ ToggleEvolution
    \/ \E partial \in CullConfigs : SetConfig(partial)
    \/ Animate(61, 61 * MaxControllerFrames, MaxCullPop + 1, OneDraw, 1)

SpecCull == InitWith({MaxCullPop}, {StartCullConfig}) /\ [][NextCull]_vars

\* The whole life of a population: creation, breeding by the player, and
\* frames of three seconds with feeding, on a controller that culls
\* above a ceiling of two.
LifeGaps == {3}

StartLifeConfig ==
    setConfig(DefaultConfig,
              [enabled |-> TRUE, naturalSelection |-> TRUE,
               maxPopulation |-> 2, targetPopulation |-> 1])

NextLife ==
    \/ CreateRandomCreature(MaxId)
    \/ \E creature1, creature2 \in SeqToSet(creatures) :
          BreedCreatures(creature1, creature2, MaxId, OneDraw)
    \/ \E deltaTime \in LifeGaps :
          Animate(deltaTime, 3 * MaxFrames, MaxId, OneDraw, 1)

SpecLife == InitWith({2}, {StartLifeConfig}) /\ [][NextLife]_vars

\* Saving and loading: a game of two creatures, one with the least stamina
\* generateRandomTraits gives, played in frames of one second, bred, saved,
\* loaded, with a stored item that can be damaged between save and load.
WeakTraits == [size |-> 5, speed |-> 5, stamina |-> 5, bodyColor |-> Red,
               aggression |-> 9]

SaveFounders ==
    (1 :> Creature(1, CHOOSE nm \in FounderNames : TRUE, WeakTraits, 0, null, 0))
    @@ (2 :> Creature(2, CHOOSE nm \in FounderNames : TRUE, StartTraits(1), 0, null, 0))

InitSave ==
    /\ heap = SaveFounders
    /\ creatures = <<1, 2>>
    /\ nextId = 3
    /\ config = DefaultConfig
    /\ lastBreedTime = 0
    /\ generationCount = 0
    /\ foods = 0
    /\ lastSpawnTime = 0
    /\ now = StartTime
    /\ last = Op("new", "none", 0, 0)
    /\ toggled = NoToggle
    /\ storage = NoSave
    /\ attemptedAt = -1
    /\ selectedCreatures = <<>>

NextSave ==
    \/ SaveGame
    \/ DamageStorage
    \/ LoadGame(MaxLoadId)
    \/ \E creature1, creature2 \in SeqToSet(creatures) :
          BreedCreatures(creature1, creature2, MaxSaveBred, OneDraw)
    \/ Animate(1, MaxSaveFrames, MaxLoadId, OneDraw, 0)

SpecSave == InitSave /\ [][NextSave]_vars

\* The import of pools in which a record lacks its traits or is null.
NoTraitsRecord ==
    [id |-> 7, name |-> <<"D", "r", "a", "k", "e", "o", "r">>, traits |-> null,
     generation |-> 2, parentIds |-> null, energy |-> 3 * EnergyPerTenth]

GoodRecord ==
    [id |-> 9, name |-> <<"C", "r", "y", "o", "i", "x">>,
     traits |-> [size |-> 5, speed |-> 12, stamina |-> 20, bodyColor |-> Blue,
                 aggression |-> 2],
     generation |-> 1, parentIds |-> null, energy |-> 0]

BatchPools ==
    {<<GoodRecord>>, <<NoTraitsRecord>>, <<NoTraitsRecord, GoodRecord>>,
     <<GoodRecord, NoTraitsRecord>>, <<GoodRecord, null>>}

NextBatch ==
    \/ \E imported \in BatchPools : ImportPool(imported, MaxId)
    \/ Animate(1, MaxFrames, MaxId, OneDraw, 0)

SpecBatch == Init /\ [][NextBatch]_vars

\* Natural selection with and without automatic breeding: a game whose
\* controller culls above a ceiling of two, the auto-breed flag, the switch,
\* new creatures, and frames a full interval apart.
AutoBreedFlags == {[autoBreed |-> FALSE], [autoBreed |-> TRUE]}

NextSelect ==
    \/ ToggleEvolution
    \/ \E partial \in AutoBreedFlags : SetConfig(partial)
    \/ CreateRandomCreature(MaxId)
    \/ Animate(61, 61 * MaxControllerFrames, MaxId, OneDraw, 0)

SpecSelect == InitWith({3}, {StartLifeConfig}) /\ [][NextSelect]_vars

\* The control loop left to itself: a large population, the controller and
\* natural selection enabled; the player changes the speed, and the browser
\* keeps delivering frames, a full interval apart.  The ceiling equals the
\* target or lies above it.
ConvergeConfigs ==
    {setConfig(DefaultConfig, [enabled |-> TRUE, naturalSelection |-> TRUE] @@ limits) :
        limits \in {[maxPopulation |-> 1, targetPopulation |-> 1],
                    [maxPopulation |-> 4, targetPopulation |-> 1],
                    [maxPopulation |-> 3, targetPopulation |-> 2],
                    [maxPopulation |-> 4, targetPopulation |-> 4]}}

Speeds == {[speed |-> 1], [speed |-> 2]}

ConvergeFrame == Animate(61, 61 * MaxControllerFrames, MaxCullPop + 1, OneDraw, 1)

NextConverge ==
    \/ \E partial \in Speeds : SetConfig(partial)
    \/ ConvergeFrame

\* animate() asks for the next frame first (requestAnimationFrame), so the
\* frames keep coming; under NextConverge the steps that advance the clock
\* are the frames, and a frame is possible whenever the clock can advance
FrameScheduled == now' = now + 61 /\ now' <= StartTime + 61 * MaxControllerFrames

SpecConverge ==
    /\ InitWith({MaxCullPop - 2, MaxCullPop - 1, MaxCullPop}, ConvergeConfigs)
    /\ [][NextConverge]_vars
    /\ WF_now(FrameScheduled)

\* Breeding over generations.  The founders are generation-1 individuals as
\* the game gets them: generated, or taken from a pool or a saved game, whose
\* numbers are any finite numbers >= 0.
NumberInputs == {0, MAX_VALUE \div 2, MAX_VALUE}

GenomeInputs == [size : NumberInputs, speed : {12}, stamina : {20}, bodyColor : {Blue},
                 aggression : {2}]

GenomeDraws == [size : {"lo", "hi"}, speed : {"lo"}, stamina : {"hi"}, bodyColor : {"blend"},
                aggression : {"hi"}]

InitGenome ==
    /\ \E t1 \in GenomeInputs, t2 \in GenomeInputs :
          heap = [r \in 1..3 |->
                     Creature(r, CHOOSE nm \in FounderNames : TRUE,
                              IF r = 1 THEN t1 ELSE IF r = 2 THEN t2 ELSE StartTraits(r),
                              0, null, 0)]
    /\ creatures = <<1, 2, 3>>
    /\ nextId = 4
    /\ config = DefaultConfig
    /\ lastBreedTime = 0
    /\ generationCount = 0
    /\ foods = 0
    /\ lastSpawnTime = 0
    /\ now = StartTime
    /\ last = Op("new", "none", 0, 0)
    /\ toggled = NoToggle
    /\ storage = NoSave
    /\ attemptedAt = -1
    /\ selectedCreatures = <<>>

NextGenome ==
    \E creature1 \in DOMAIN heap, creature2 \in DOMAIN heap :
        BreedCreatures(creature1, creature2, MaxGenomeId, GenomeDraws)

SpecGenome == InitGenome /\ [][NextGenome]_vars

\* Inheritance of colors: two founders with any of a few colors (channels
\* below and above 16, equal and different) and the three outcomes of the
\* draws of blendColors.
ColorInputs == {Red, Blue, <<0, 1, 0, 2, 1, 0>>, <<15, 15, 15, 15, 15, 15>>}

ColorDraws ==
    [size : {"lo"}, speed : {"hi"}, stamina : {"hi"}, bodyColor : {"color1", "color2", "blend"},
     aggression : {"hi"}]

InitColor ==
    /\ \E color1 \in ColorInputs, color2 \in ColorInputs :
          heap = [r \in 1..2 |->
                     Creature(r, CHOOSE nm \in FounderNames : TRUE,
                              [StartTraits(r) EXCEPT
                                  !.bodyColor = IF r = 1 THEN color1 ELSE color2],
                              0, null, 0)]
    /\ creatures = <<1, 2>>
    /\ nextId = 3
    /\ config = DefaultConfig
    /\ lastBreedTime = 0
    /\ generationCount = 0
    /\ foods = 0
    /\ lastSpawnTime = 0
    /\ now = StartTime
    /\ last = Op("new", "none", 0, 0)
    /\ toggled = NoToggle
    /\ storage = NoSave
    /\ attemptedAt = -1
    /\ selectedCreatures = <<>>

NextColor ==
    \E creature1 \in DOMAIN heap, creature2 \in DOMAIN heap :
        BreedCreatures(creature1, creature2, MaxColorId, ColorDraws)

SpecColor == InitColor /\ [][NextColor]_vars

\* The order of the steps of a frame: three founders, a controller that is
\* enabled and culls, with a ceiling and a target above, next to or below
\* the population; the player breeds and resets the controller, and the
\* frames come three seconds apart, the first of them due.
FrameConfigs ==
    {setConfig(DefaultConfig, [enabled |-> TRUE, naturalSelection |-> TRUE] @@ limits) :
        limits \in {[maxPopulation |-> 3, targetPopulation |-> 20],
                    [maxPopulation |-> 5, targetPopulation |-> 4],
                    [maxPopulation |-> 3, targetPopulation |-> 2]}}

NextFrame ==
    \/ \E creature1, creature2 \in SeqToSet(creatures) :
          BreedCreatures(creature1, creature2, MaxFrameBred, OneDraw)
    \/ Reset
    \/ Animate(3, 3 * MaxFrameTicks, MaxFrameId, OneDraw, 0)

SpecFrame == InitWith({3}, FrameConfigs) /\ [][NextFrame]_vars

\* Inheritance of the behavioral traits (aggression stands for the three,
\* which breedTraits treats alike): two founders whose value is one
\* Math.random() can return, in tenths, and the two ends of the mutation.
BehaviorInputs == {0, 9}

BehaviorDraws ==
    [size : {"lo"}, speed : {"hi"}, stamina : {"hi"}, bodyColor : {"blend"},
     aggression : {"lo", "hi"}]

InitBehavior ==
    /\ \E value1 \in BehaviorInputs, value2 \in BehaviorInputs :
          heap = [r \in 1..2 |->
                     Creature(r, CHOOSE nm \in FounderNames : TRUE,
                              [StartTraits(2) EXCEPT
                                  !.aggression = IF r = 1 THEN value1 ELSE value2],
                              0, null, 0)]
    /\ creatures = <<1, 2>>
    /\ nextId = 3
    /\ config = DefaultConfig
    /\ lastBreedTime = 0
    /\ generationCount = 0
    /\ foods = 0
    /\ lastSpawnTime = 0
    /\ now = StartTime
    /\ last = Op("new", "none", 0, 0)
    /\ toggled = NoToggle
    /\ storage = NoSave
    /\ attemptedAt = -1
    /\ selectedCreatures = <<>>

NextBehavior ==
    \E creature1 \in DOMAIN heap, creature2 \in DOMAIN heap :
        BreedCreatures(creature1, creature2, MaxBehaviorId, BehaviorDraws)

SpecBehavior == InitBehavior /\ [][NextBehavior]_vars

\* Feeding: a new game in which the player breeds, with frames three
\* seconds apart, food that spawns, and one or two creatures within reach of
\* a food item.
NextFeed ==
    \/ \E creature1, creature2 \in SeqToSet(creatures) :
          BreedCreatures(creature1, creature2, MaxFeedId, OneDraw)
    \/ Animate(3, 3 * MaxFeedFrames, MaxFeedId, OneDraw, 2)

SpecFeed == InitWith({2}, {DefaultConfig}) /\ [][NextFeed]_vars

\* Breeding and rest without food: a game loaded with three individuals of
\* stamina 2.5 at full energy, for which frames of one second are short
\* (0.5 * 1 <= 0.2 * 2.5); the player breeds the first of them with the
\* others, nobody is fed.
StrongTraits ==
    [size |-> 10, speed |-> 10, stamina |-> 25, bodyColor |-> Red, aggression |-> 9]

InitRest ==
    /\ heap = [r \in 1..3 |->
                  Creature(r, CHOOSE nm \in FounderNames : TRUE, StrongTraits, 0, null, 0)]
    /\ creatures = <<1, 2, 3>>
    /\ nextId = 4
    /\ config = DefaultConfig
    /\ lastBreedTime = 0
    /\ generationCount = 0
    /\ foods = 0
    /\ lastSpawnTime = 0
    /\ now = StartTime
    /\ last = Op("new", "none", 0, 0)
    /\ toggled = NoToggle
    /\ storage = NoSave
    /\ attemptedAt = -1
    /\ selectedCreatures = <<>>

NextRest ==
    \/ \E creature2 \in SeqToSet(creatures) :
          BreedCreatures(Head(creatures), creature2, MaxRestId, OneDraw)
    \/ Animate(1, MaxRestFrames, MaxRestId, OneDraw, 0)

SpecRest == InitRest /\ [][NextRest]_vars

\* Selecting and breeding while the controller runs: three founders, a
\* controller that is enabled and culls above a ceiling of two; the player
\* clicks on creatures and on the breed button, and the frames come a full
\* interval apart.
NextUi ==
    \/ \E creature \in SeqToSet(creatures) : SelectCreature(creature)
    \/ BreedButton(MaxUiId, OneDraw)
    \/ Animate(61, 61 * MaxUiFrames, MaxUiId, OneDraw, 0)

SpecUi == InitWith({3}, {StartLifeConfig}) /\ [][NextUi]_vars

\* Eligibility checks: a game loaded with three individuals of different
\* names, the third one with no stamina and no energy; the player breeds,
\* and the frames pass.
StatusNames ==
    <<<<"A", "e", "r", "o", "y", "x">>,
      <<"B", "l", "a", "z", "e", "i", "s">>,
      <<"C", "r", "y", "o", "u", "s">>>>

NoStamina == [size |-> 10, speed |-> 10, stamina |-> 0, bodyColor |-> Red,
              aggression |-> 9]

InitStatus ==
    /\ heap = [r \in 1..3 |->
                  Creature(r, StatusNames[r], IF r = 3 THEN NoStamina ELSE StartTraits(r),
                           0, null, 0)]
    /\ creatures = <<1, 2, 3>>
    /\ nextId = 4
    /\ config = DefaultConfig
    /\ lastBreedTime = 0
    /\ generationCount = 0
    /\ foods = 0
    /\ lastSpawnTime = 0
    /\ now = StartTime
    /\ last = Op("new", "none", 0, 0)
    /\ toggled = NoToggle
    /\ storage = NoSave
    /\ attemptedAt = -1
    /\ selectedCreatures = <<>>

NextStatus ==
    \/ \E creature1 \in DOMAIN heap, creature2 \in DOMAIN heap :
          BreedCreatures(creature1, creature2, MaxStatusId, OneDraw)
    \/ Animate(1, MaxFrames, MaxStatusId, OneDraw, 0)

SpecStatus == InitStatus /\ [][NextStatus]_vars

\* Selection by fitness: a game loaded with three individuals in any order,
\* one of them without stamina; the controller is enabled and culls above a
\* ceiling of two or one; the player creates creatures and sets the target,
\* and the frames come a full interval apart.
FitnessConfigs ==
    {setConfig(DefaultConfig,
               [enabled |-> TRUE, naturalSelection |-> TRUE, maxPopulation |-> ceiling,
                targetPopulation |-> 2]) : ceiling \in {1, 2}}

FitnessTargets == {[targetPopulation |-> 1], [targetPopulation |-> 2]}

InitFitness ==
    /\ heap = [r \in 1..3 |->
                  Creature(r, StatusNames[r], IF r = 3 THEN NoStamina ELSE StartTraits(r),
                           0, null, 0)]
    /\ creatures \in Orderings({1, 2, 3})
    /\ nextId = 4
    /\ config \in FitnessConfigs
    /\ lastBreedTime = 0
    /\ generationCount = 0
    /\ foods = 0
    /\ lastSpawnTime = 0
    /\ now = StartTime
    /\ last = Op("new", "none", 0, 0)
    /\ toggled = NoToggle
    /\ storage = NoSave
    /\ attemptedAt = -1
    /\ selectedCreatures = <<>>

NextFitness ==
    \/ \E partial \in FitnessTargets : SetConfig(partial)
    \/ CreateRandomCreature(MaxFitnessId)
    \/ Animate(61, 61 * MaxControllerFrames, MaxFitnessId, OneDraw, 0)

SpecFitness == InitFitness /\ [][NextFitness]_vars

(***************************************************************************)
(* Properties.                                                             *)
(***************************************************************************)
Refs == DOMAIN heap

BredOk == \/ last.op = "breedCreatures" /\ last.signal = "success"
          \/ last.op = "breed" /\ last.signal = "ok"

\* C1: for every pair for which canBreed is false (same individual, a parent
\* short of energy, or one a direct parent of the other), breed(a, b)
\* refuses: it signals a failure, creates no offspring and leaves the
\* energy of both parents as it was.
C1_BreedRefusesIneligible ==
    [][(last'.op = "breed" /\ ~canBreed(heap[last'.a], heap[last'.b]))
          => /\ last'.signal # "ok"
             /\ creatures' = creatures
             /\ heap' = heap]_vars

\* C2: getBreedingStatus(a, b) is 'Ready to breed' exactly when
\* canBreed(a, b) is true, for every pair of individuals.
C2_StatusAgreesWithCanBreed ==
    \A a, b \in Refs :
        (getBreedingStatus(heap[a], heap[b]) = ReadyToBreed) <=> canBreed(heap[a], heap[b])

\* a ready pair next to a pair that only the parent/offspring rule blocks
C2_Witness ==
    /\ \E a, b \in Refs : canBreed(heap[a], heap[b])
    /\ \E a, b \in Refs :
          getBreedingStatus(heap[a], heap[b]).text = "Cannot breed with offspring"

\* the energy levels tried for creature c: none, just under and at the 50%
\* threshold, full, and the one it has
EnergyLevels(c) ==
    {0, FullEnergy(c.traits) \div 2 - 1, FullEnergy(c.traits) \div 2,
     FullEnergy(c.traits), c.energy}

\* C3: if a.parentIds contains b.id then canBreed(a, b) and canBreed(b, a)
\* are both false, whatever the energy of a and of b.
C3_NoBreedingWithParent ==
    \A a, b \in Refs :
        (heap[a].parentIds # null /\ includes(heap[a].parentIds, heap[b].id))
        => \A ea \in EnergyLevels(heap[a]), eb \in EnergyLevels(heap[b]) :
              LET ca == [heap[a] EXCEPT !.energy = ea]
                  cb == [heap[b] EXCEPT !.energy = eb]
              IN  ~canBreed(ca, cb) /\ ~canBreed(cb, ca)

\* an offspring and one of its parents, both with the energy to breed
C3_Witness ==
    \E a, b \in Refs :
        /\ a # b
        /\ heap[a].parentIds # null /\ includes(heap[a].parentIds, heap[b].id)
        /\ ~needsEnergy(heap[a]) /\ ~needsEnergy(heap[b])

\* C4: a successful breed(a, b) of two distinct individuals leaves each
\* parent with exactly 70% of the energy it had, and changes the energy of
\* no other individual.
C4_ParentsKeepSeventyPercent ==
    [][(BredOk' /\ last'.a # last'.b)
          => /\ 10 * heap'[last'.a].energy = 7 * heap[last'.a].energy
             /\ 10 * heap'[last'.b].energy = 7 * heap[last'.b].energy
             /\ \A r \in Refs \ {last'.a, last'.b} : heap'[r].energy = heap[r].energy]_vars

\* a breeding has just succeeded with a bystander in the population
C4_Witness ==
    /\ BredOk /\ last.a # last.b
    /\ Cardinality(Refs) >= 4
    /\ heap[last.a].energy > 0

\* C5: a successful breeding adds exactly one individual, of generation
\* max(a.generation, b.generation) + 1 and lineage [a.id, b.id]; from two
\* founders at full energy one breeding gives 3 individuals, the offspring
\* in generation 2.
C5_OneOffspringPerBreeding ==
    [][BredOk'
          => LET a == last'.a
                 b == last'.b
                 child == creatures'[Len(creatures')]
             IN  /\ Len(creatures') = Len(creatures) + 1
                 /\ SubSeq(creatures', 1, Len(creatures)) = creatures
                 /\ child \notin Refs
                 /\ heap'[child].generation =
                       (IF heap[a].generation > heap[b].generation
                        THEN heap[a].generation ELSE heap[b].generation) + 1
                 /\ heap'[child].parentIds = <<heap[a].id, heap[b].id>>
                 /\ (Len(creatures) = 2 /\ \A r \in Refs :
                        heap[r].parentIds = null /\ heap[r].energy = FullEnergy(heap[r].traits))
                    => (Len(creatures') = 3 /\ heap'[child].generation = 2)]_vars

\* two founders have bred once: three individuals, the third their offspring
C5_Witness ==
    /\ BredOk
    /\ Len(creatures) = 3
    /\ heap[creatures[3]].generation = 2
    /\ heap[creatures[3]].parentIds = <<heap[creatures[1]].id, heap[creatures[2]].id>>
    /\ heap[creatures[1]].parentIds = null /\ heap[creatures[2]].parentIds = null

\* C6: every individual a pool import adds is a new founder: no lineage,
\* generation 1 and a fresh id (not the id of any incoming record, not the
\* id of any individual of the population); the individuals that were
\* there are unchanged.
C6_ImportedAreNewFounders ==
    [][last'.op = "importPool"
          => /\ Len(creatures') = Len(creatures) + last'.a
             /\ SubSeq(creatures', 1, Len(creatures)) = creatures
             /\ \A r \in Refs : heap'[r] = heap[r]
             /\ \A k \in (Len(creatures) + 1)..Len(creatures') :
                   LET c == heap'[creatures'[k]]
                   IN  /\ c.parentIds = null
                       /\ c.generation = 1
                       /\ c.id \notin {d.id : d \in ImportedRecords}
                       /\ c.id \notin {heap[r].id : r \in Refs}
                       /\ \A m \in (Len(creatures) + 1)..Len(creatures') :
                             m # k => heap'[creatures'[m]].id # c.id]_vars

\* the record that declared generation 7 and two parents has been imported
\* into a population in which the id it declared is in use
C6_Witness ==
    /\ last.op = "importPool" /\ last.a >= 1
    /\ \E r \in Refs : heap[r].name = <<"B", "l", "a", "z", "e", "u", "s">>
    /\ \E r \in Refs : heap[r].id = 1

\* C7: a frame removes at most 5 individuals by natural selection, whatever
\* the population size, the ceiling and the target.
C7_AtMostFiveCulled ==
    [][last'.op = "animate"
          => Cardinality(SeqToSet(creatures) \ SeqToSet(creatures')) <= 5]_vars

\* five individuals have been culled and the population is still above the
\* target
C7_Witness ==
    /\ last.op = "animate" /\ last.signal = "due"
    /\ config.naturalSelection
    /\ nextId - 1 - Len(creatures) = 5
    /\ Len(creatures) > config.targetPopulation

\* C8: after the controller is disabled and enabled again, no breeding
\* attempt happens until a full interval has passed since it was enabled,
\* and the generation counter has the value it had when it was disabled.
C8_ReenableResetsTimer ==
    /\ (toggled.reenabledAt >= 0 /\ last.op = "animate" /\ last.signal = "due")
          => now - toggled.reenabledAt > breedInterval(config)
    /\ (toggled.count >= 0 /\ config.enabled /\ last.op \in {"toggleEvolution", "setConfig"})
          => generationCount = toggled.count

\* C9: reset() zeroes the generation counter and the last-attempt time and
\* changes nothing else: not the configuration, not the population.
C9_ResetZeroesCounters ==
    [][last'.op = "reset"
          => /\ generationCount' = 0
             /\ lastBreedTime' = 0
             /\ config' = config
             /\ creatures' = creatures
             /\ heap' = heap
             /\ foods' = foods /\ lastSpawnTime' = lastSpawnTime /\ now' = now
             /\ storage' = storage]_vars

\* reset has run on an enabled controller that had bred
C9_Witness ==
    /\ last.op = "reset"
    /\ config.enabled
    /\ generationCount = 0 /\ lastBreedTime = 0
    /\ Len(creatures) > 2

\* C10: a frame triggers at most one breeding transaction, and the
\* generation counter grows by the number of breedings of the frame.
C10_OneBreedingPerTick ==
    [][last'.op = "animate"
          => /\ nextId' - nextId <= 1
             /\ generationCount' - generationCount = nextId' - nextId]_vars

\* a due frame has bred once in a population with several compatible pairs
C10_Witness ==
    /\ last.op = "animate" /\ last.signal = "due"
    /\ generationCount = 1
    /\ Len(creatures) = 4
    /\ Cardinality({r \in Refs : heap[r].parentIds = null}) = 3

\* C11: in every state reached from founders by creation, frames, feeding,
\* breeding and culling, every individual has 0 <= energy <= stamina.
C11_EnergyWithinStamina ==
    \A r \in Refs : 0 <= heap[r].energy /\ heap[r].energy <= FullEnergy(heap[r].traits)

\* after a frame, a creature that has bred (and so had at most 70% of its
\* energy) is back at its full stamina
C11_Witness ==
    /\ last.op = "animate"
    /\ \E r, k \in Refs :
          /\ heap[k].parentIds # null /\ includes(heap[k].parentIds, heap[r].id)
          /\ r \in SeqToSet(creatures)
          /\ heap[r].energy = FullEnergy(heap[r].traits)

\* C12: a load that does not finish reconstructing every saved record
\* (unparseable data, no creature list, an invalid record in the list) fails
\* as a whole: no individual of the population has been removed and no
\* loaded individual has been added.
C12_FailedLoadLeavesPopulation ==
    [][(last'.op = "loadGame" /\ last'.signal # "success")
          => /\ creatures' = creatures
             /\ heap' = heap]_vars

\* C14: toData() followed by new Creature(data) gives back the individual:
\* same id, name, genome, generation, lineage and energy, for every
\* individual of every reachable state.
C14_SaveLoadRoundTrip ==
    \A r \in Refs :
        LET c == heap[r]
            back == fromData(toData(c), WeakTraits, 0)
        IN  /\ back.id = c.id /\ back.name = c.name /\ back.traits = c.traits
            /\ back.generation = c.generation /\ back.parentIds = c.parentIds
            /\ back.energy = c.energy

\* C13: an imported record that fails structural validation (no traits) is
\* skipped: the import adds one individual for each well-formed record of
\* the batch and none for the others.
C13_InvalidRecordSkipped ==
    [][last'.op = "importPool"
          => /\ Len(creatures') = Len(creatures) + last'.b
             /\ \A k \in (Len(creatures) + 1)..Len(creatures') :
                   heap'[creatures'[k]].name = GoodRecord.name]_vars

\* C15: natural selection does not depend on the auto-breed flag: with the
\* controller enabled, natural selection enabled and auto-breed disabled, a
\* frame that comes more than an interval after the last attempt, on a
\* population above the ceiling (and above the target), removes individuals.
C15_SelectionWithoutAutoBreed ==
    [][(/\ last'.op = "animate"
        /\ config.enabled /\ config.naturalSelection /\ ~config.autoBreed
        /\ now' - lastBreedTime > breedInterval(config)
        /\ Len(creatures) > config.maxPopulation
        /\ Len(creatures) > config.targetPopulation)
          => Len(creatures') < Len(creatures)]_vars

\* C16: with the controller and natural selection enabled and nobody added
\* from outside, a population above the ceiling is eventually reduced, by
\* the culls of successive due frames, to the target population size.
C16_ConvergesToTarget ==
    (config.enabled /\ config.naturalSelection /\ Len(creatures) > config.maxPopulation)
        ~> (Len(creatures) = config.targetPopulation)

NumericTraits == {"size", "speed", "stamina"}

\* C17: the parents' numeric traits being finite and >= 0, every numeric
\* trait of the offspring breedTraits gives is finite and >= 0, whatever the
\* random source returns, in every generation.
C17_TraitsFiniteNonNegative ==
    \A r \in Refs : \A f \in NumericTraits :
        isFinite(heap[r].traits[f]) /\ heap[r].traits[f] >= 0

\* the channel-wise integer average of two RGB triples, either rounding
Averages(rgb1, rgb2) ==
    {[r |-> r, g |-> g, b |-> b] :
        r \in {(rgb1.r + rgb2.r) \div 2, (rgb1.r + rgb2.r + 1) \div 2},
        g \in {(rgb1.g + rgb2.g) \div 2, (rgb1.g + rgb2.g + 1) \div 2},
        b \in {(rgb1.b + rgb2.b) \div 2, (rgb1.b + rgb2.b + 1) \div 2}}

Offspring == {r \in Refs : heap[r].parentIds # null}

\* C18: the color an offspring inherits is the first parent's color verbatim,
\* the second parent's verbatim, or the channel-wise integer average of the
\* two; two offspring of the same parents that were blended have the same
\* color; and the blend of (255,0,0) and (0,0,255) is (127 or 128, 0, 127 or
\* 128).
C18_ColorInheritance ==
    \A o \in Offspring :
        LET color1 == heap[heap[o].parentIds[1]].traits.bodyColor
            color2 == heap[heap[o].parentIds[2]].traits.bodyColor
            color == heap[o].traits.bodyColor
            blended == color # color1 /\ color # color2
        IN  /\ blended => hexToRgb(color) \in Averages(hexToRgb(color1), hexToRgb(color2))
            /\ \A p \in Offspring :
                  (/\ heap[p].parentIds = heap[o].parentIds
                   /\ heap[p].traits.bodyColor # color1
                   /\ heap[p].traits.bodyColor # color2
                   /\ blended) => heap[p].traits.bodyColor = color
            /\ (/\ blended
                /\ hexToRgb(color1) = [r |-> 255, g |-> 0, b |-> 0]
                /\ hexToRgb(color2) = [r |-> 0, g |-> 0, b |-> 255])
                  => /\ hexToRgb(color).r \in {127, 128}
                     /\ hexToRgb(color).g = 0
                     /\ hexToRgb(color).b \in {127, 128}

\* red and blue parents with a verbatim and a blended offspring
C18_Witness ==
    \E o \in Offspring, p \in Offspring :
        /\ heap[o].parentIds = <<1, 2>> /\ heap[p].parentIds = <<1, 2>>
        /\ heap[1].traits.bodyColor = Red /\ heap[2].traits.bodyColor = Blue
        /\ heap[o].traits.bodyColor = Red
        /\ hexToRgb(heap[p].traits.bodyColor) = [r |-> 127, g |-> 0, b |-> 127]

IsParentOf(p, c) == c.parentIds # null /\ includes(c.parentIds, p.id)

NeedsMoreEnergy(c) == [name |-> c.name, text |-> " needs more energy"]

\* C19: getBreedingStatus gives the reason of the first failing rule in the
\* order: same individual; first parent's energy below 50% of its stamina;
\* second parent's energy below 50% of its stamina; second is a parent of
\* first; first is a parent of second.  A parent/child pair with a parent
\* short of energy is reported as short of energy, naming the first parent
\* that is.
C19_FirstFailingRule ==
    \A a, b \in Refs :
        \A ea \in EnergyLevels(heap[a]), eb \in EnergyLevels(heap[b]) :
            LET ca == [heap[a] EXCEPT !.energy = ea]
                cb == [heap[b] EXCEPT !.energy = IF a = b THEN ea ELSE eb]
                status == getBreedingStatus(ca, cb)
                lowA == 2 * ca.energy < ca.traits.stamina * EnergyPerTenth
                lowB == 2 * cb.energy < cb.traits.stamina * EnergyPerTenth
            IN  /\ a = b => status.text = "Cannot breed with self"
                /\ (a # b /\ lowA) => status = NeedsMoreEnergy(ca)
                /\ (a # b /\ ~lowA /\ lowB) => status = NeedsMoreEnergy(cb)
                /\ (a # b /\ ~lowA /\ ~lowB /\ IsParentOf(cb, ca))
                      => status.text = "Cannot breed with parent"
                /\ (a # b /\ ~lowA /\ ~lowB /\ ~IsParentOf(cb, ca) /\ IsParentOf(ca, cb))
                      => status.text = "Cannot breed with offspring"

\* a parent and its offspring of another name, the parent short of energy
\* as the game left it, the offspring not
C19_Witness ==
    \E a, b \in Refs :
        /\ IsParentOf(heap[a], heap[b])
        /\ heap[a].name # heap[b].name
        /\ needsEnergy(heap[a]) /\ ~needsEnergy(heap[b])
        /\ getBreedingStatus(heap[b], heap[a]) = NeedsMoreEnergy(heap[a])

\* C20: canBreed(a, a) is false for every individual a, whatever its
\* energy, stamina and lineage, an individual with zero stamina and zero
\* energy included.
C20_NeverWithItself ==
    \A a \in Refs : \A ea \in EnergyLevels(heap[a]) :
        ~canBreed([heap[a] EXCEPT !.energy = ea], [heap[a] EXCEPT !.energy = ea])

\* an individual with no stamina and no energy, which the energy rule lets
\* pass, next to an offspring with the energy to breed
C20_Witness ==
    /\ \E a \in Refs : /\ heap[a].traits.stamina = 0 /\ heap[a].energy = 0
                        /\ ~needsEnergy(heap[a])
    /\ \E a \in Refs : heap[a].parentIds # null /\ ~needsEnergy(heap[a])

\* the population as the controller of the frame ending at t finds it:
\* animate has updated every creature before it calls the controller
AtController(t) ==
    [r \in SeqToSet(creatures) |-> Creature_update(heap[r], t - now)]

\* C21: at every due frame of an enabled controller with auto-breed on, if
\* the population is below the target and some pair of individuals with
\* energy above 50% of stamina satisfies canBreed, a breeding transaction
\* takes place in that frame.
C21_BreedsWhenPairExists ==
    [][(/\ last'.op = "animate"
        /\ due(config, lastBreedTime, now')
        /\ Len(creatures) < config.targetPopulation
        /\ \E c1, c2 \in SeqToSet(creatures) :
              LET atTick == AtController(now')
              IN  /\ 2 * atTick[c1].energy > FullEnergy(atTick[c1].traits)
                  /\ 2 * atTick[c2].energy > FullEnergy(atTick[c2].traits)
                  /\ canBreed(atTick[c1], atTick[c2]))
          => /\ Len(creatures') = Len(creatures) + 1
             /\ generationCount' = generationCount + 1]_vars

\* "if low energy, rest": the individual is below 30% of its stamina
Resting(c) == lowEnergy(c.energy, c.traits)

\* the individual has rested for longer than the threshold of 2 seconds
RestedLong(c) == Resting(c) /\ c.idleTime > 2

\* C22: a resting individual (energy below 30% of stamina) stops consuming
\* energy: no frame lowers the energy of a resting individual, and once it
\* has rested longer than the threshold every frame raises its energy at
\* the regeneration rate of 0.5 per second, never above its stamina.
C22_RestingKeepsEnergy ==
    [][last'.op = "animate"
          => \A r \in SeqToSet(creatures) \cap SeqToSet(creatures') :
                /\ Resting(heap[r]) => heap'[r].energy >= heap[r].energy
                /\ RestedLong(heap[r])
                      => heap'[r].energy =
                            Min(FullEnergy(heap[r].traits),
                                heap[r].energy + (now' - now) * 5 * EnergyPerTenth)]_vars

\* C23: within one frame the energy decay and regeneration are applied
\* before the controller evaluates eligibility, and the breeding step comes
\* before natural selection: the parents of a frame's offspring are above
\* 50% of their stamina after the frame's update, the selection step counts
\* the offspring in the population, and an offspring created in a frame is
\* not culled in that frame unless the population then exceeds the ceiling.
C23_OrderWithinFrame ==
    [][(last'.op = "animate" /\ nextId' > nextId)
          => LET atTick == AtController(now')
                 grown == Len(creatures) + 1
                 culls == config.naturalSelection /\ grown > config.maxPopulation
             IN  /\ \E c1, c2 \in SeqToSet(creatures) :
                       /\ 2 * atTick[c1].energy > FullEnergy(atTick[c1].traits)
                       /\ 2 * atTick[c2].energy > FullEnergy(atTick[c2].traits)
                       /\ canBreed(atTick[c1], atTick[c2])
                       /\ nextId \in DOMAIN heap'
                             => heap'[nextId].parentIds = <<atTick[c1].id, atTick[c2].id>>
                       /\ \A r \in {c1, c2} \cap SeqToSet(creatures') :
                             heap'[r].energy = reduceEnergy(atTick[r].energy)
                 /\ Len(creatures') =
                       grown - (IF culls
                                THEN Max(0, toRemove(grown, config.targetPopulation))
                                ELSE 0)
                 /\ nextId \in SeqToSet(creatures') \/ grown > config.maxPopulation]_vars

\* a due frame has bred two individuals that its update left above 50%,
\* while a third one, above 50% before the update and below after it, took
\* no part; the offspring stays although the population exceeds the ceiling
C23_Witness ==
    /\ last.op = "animate" /\ last.signal = "due"
    /\ config.naturalSelection /\ Len(creatures) > config.maxPopulation
    /\ \E o \in SeqToSet(creatures) :
          /\ heap[o].id = nextId - 1
          /\ heap[o].parentIds = <<2, 3>>
    /\ 1 \in SeqToSet(creatures)
    /\ heap[1].energy = 4 * EnergyPerTenth

\* C24 as stated: the controller acts at most once per interval of
\* 60 s / speed: strictly more than one interval elapses between any two
\* consecutive frames in which it attempts breeding or culling, and the
\* last-attempt timestamp is advanced on every due frame.
C24_OncePerInterval ==
    [][last'.op = "animate"
          => /\ (last'.signal = "due" /\ attemptedAt >= 0)
                   => now' - attemptedAt > breedInterval(config)
             /\ due(config, lastBreedTime, now') => lastBreedTime' = now']_vars

\* C24, amended: strictly more than one interval (at the speed in force at
\* the later frame) elapses between any two consecutive frames in which the
\* controller attempts breeding or culling, unless reset() has zeroed the
\* last-attempt timestamp in between; and the last-attempt timestamp is
\* advanced on every due frame, also when the frame breeds and culls nothing.
C24_OncePerIntervalUnlessReset ==
    [][last'.op = "animate"
          => /\ (last'.signal = "due" /\ attemptedAt >= 0 /\ lastBreedTime = attemptedAt)
                   => now' - attemptedAt > breedInterval(config)
             /\ due(config, lastBreedTime, now')
                   => lastBreedTime' = now' /\ last'.signal = "due"
             /\ last'.signal = "due" => due(config, lastBreedTime, now')]_vars

\* at speed 2 the frame 60 s after the attempt that bred is due again, and
\* breeds and culls nobody: everybody is at full energy, the attempt is timed
C24_Witness ==
    /\ last.op = "animate" /\ last.signal = "due"
    /\ config.speed = 2
    /\ now = StartTime + 90
    /\ generationCount = 1 /\ Len(creatures) = 3
    /\ \A r \in SeqToSet(creatures) : heap[r].energy = FullEnergy(heap[r].traits)
    /\ lastBreedTime = now /\ attemptedAt = now

\* C25: a frame's controller step adds an individual only when the
\* population at the start of the step is strictly below the target, and a
\* population at or below the target is never raised above the target by
\* the controller.
C25_NeverAboveTarget ==
    [][last'.op = "animate"
          => /\ Len(creatures') > Len(creatures)
                   => Len(creatures) < config.targetPopulation
             /\ Len(creatures) <= config.targetPopulation
                   => Len(creatures') <= config.targetPopulation]_vars

\* the first due frame has bred the population up to the target of four;
\* the second due frame, after a reset, has found it at the target and has
\* added nobody
C25_Witness ==
    /\ last.op = "animate" /\ last.signal = "due"
    /\ now = StartTime + 6 /\ attemptedAt = now
    /\ config.targetPopulation = 4
    /\ Len(creatures) = 4
    /\ nextId = 5

\* the individuals a frame has removed from the population
Removed == SeqToSet(creatures) \ SeqToSet(creatures')

\* C26: a natural-selection pass on a population of n individuals removes
\* exactly max(0, min(5, n - target)) individuals, the lowest-fitness ones
\* (no survivor has strictly lower fitness than a removed individual, the
\* fitness being the average of size, speed, stamina and energy/stamina), and
\* never reduces the population below the target.
C26_LowestFitnessRemoved ==
    [][(/\ last'.op = "animate" /\ last'.signal = "due"
        /\ nextId' = nextId
        /\ config.naturalSelection
        /\ Len(creatures) > config.maxPopulation)
          => LET atTick == AtController(now')
                 n == Len(creatures)
             IN  /\ Cardinality(Removed) = Max(0, Min(5, n - config.targetPopulation))
                 /\ \A survivor \in SeqToSet(creatures'), removed \in Removed :
                       ~fitnessLess(atTick[survivor], atTick[removed])
                 /\ n >= config.targetPopulation
                       => Len(creatures') >= config.targetPopulation]_vars

\* C27: the behavioral traits (aggression, curiosity, social) lie in [0, 1]
\* in every reachable state, also for the offspring of two parents whose
\* value is 1.
C27_BehavioralTraitsInUnitInterval ==
    \A r \in Refs : 0 <= heap[r].traits.aggression /\ heap[r].traits.aggression <= 10

\* the individuals whose energy a frame's feeding has raised
Fed ==
    {r \in SeqToSet(creatures) \cap SeqToSet(creatures') :
        heap'[r].energy > AtController(now')[r].energy}

\* the food items a frame has removed
Eaten ==
    spawnFood([foods |-> foods, lastSpawnTime |-> lastSpawnTime], now').foods - foods'

\* C28: each food item applies its feeding effect (energy := min(stamina,
\* energy + nutrition)) to at most one individual and is then removed, also
\* when several individuals are within the feeding radius of the same item
\* in the same frame.
C28_OneEaterPerFood ==
    [][(last'.op = "animate" /\ nextId' = nextId)
          => /\ Cardinality(Fed) <= Eaten
             /\ \A r \in Fed :
                   heap'[r].energy =
                       Min(FullEnergy(heap[r].traits),
                           AtController(now')[r].energy + nutritionValue)]_vars

\* the offspring of an individual
Children(r) == {c \in Refs : IsParentOf(heap[r], heap[c])}

\* the frame is short for the individual: 0.5 * dt <= 0.2 * stamina
ShortFrame(c, deltaTime) == 25 * deltaTime <= c.traits.stamina

\* C29: without feeding, and with frames that are short for the individual
\* (0.5 * dt <= 0.2 * stamina), an energy that has fallen below 50% of the
\* stamina is not brought back to 50% or more by any frame or breeding (the
\* regeneration of rest sets in below 30% only), so that an individual that
\* starts at full energy takes part in at most two breedings until it is fed.
C29_NoRecoveryWithoutFood ==
    /\ [][\A r \in SeqToSet(creatures) \cap SeqToSet(creatures') :
             (/\ 2 * heap[r].energy < FullEnergy(heap[r].traits)
              /\ last'.op = "animate" => ShortFrame(heap[r], now' - now))
                => 2 * heap'[r].energy < FullEnergy(heap'[r].traits)]_vars
    /\ [](\A r \in Refs :
             ShortFrame(heap[r], 1) => Cardinality(Children(r)) <= 2)

\* an individual has bred twice, has fallen below 30%, has rested for
\* longer than the threshold and has regenerated, and is still below 50%
C29_Witness ==
    \E r \in Refs :
        /\ Cardinality(Children(r)) = 2
        /\ heap[r].idleTime = 3
        /\ ~Resting(heap[r])
        /\ 2 * heap[r].energy < FullEnergy(heap[r].traits)

\* C30: both parents of every breeding transaction are members of the live
\* population when the transaction runs: an individual that natural
\* selection has removed never becomes a parent afterwards, under every
\* interleaving of the player's selection, the controller's frames and the
\* player's breed action.
C30_ParentsInPopulation ==
    [][(last'.op = "breedCreatures" /\ last'.signal = "success")
          => /\ last'.a \in SeqToSet(creatures)
             /\ last'.b \in SeqToSet(creatures)]_vars


====
